---- MODULE Spec2Model ----
(***************************************************************************)
(* safe-wipe: the guarded directory deletion of src/index.js.              *)
(*                                                                         *)
(* A string is a tuple of one-character strings, so that path resolution, *)
(* String.prototype.indexOf and the answer's regular expression are       *)
(* computed on characters.  Message texts and file names are compared     *)
(* whole only, and stay TLA+ strings.                                      *)
(***************************************************************************)
EXTENDS Integers, Sequences, FiniteSets, TLC

VARIABLES
  fs,        \* the file system: resolved directory path -> its state
  pc,        \* position of the invocation in the promise chain of safeWipeRaw
  via,       \* how the invocation was made: "direct" (safeWipe) or "bound"
  dir,       \* the `dir` argument of the invocation
  arg,       \* configuration argument of the invocation (NoConfig: none given)
  config,    \* the resolved configuration the invocation runs with
  ret,       \* what the caller got back: "promise" or "undefined"
  listing,   \* what readdir delivered to isEmpty in this invocation
  answer,    \* the line the operator answered
  err,       \* the error the chain was rejected with
  stdout,    \* what this invocation wrote to config.stdout
  stderr,    \* what this invocation wrote to config.stderr
  rl,        \* the readline interface of prompt: "none", "open", "closed"
  events,    \* external operations of this invocation, in order
  bound,     \* configuration held by the function safeWipeNew returned
  ncalls,    \* invocations started so far
  wiped,     \* the names rimraf removed from the target in this invocation
  streams,   \* the caller's streams: each "open" or "closed"
  history,   \* how the earlier invocations settled, in order
  legacy     \* an invocation of maybeWipe: its promises and what it did

vars == <<fs, pc, via, dir, arg, config, ret, listing, answer, err,
          stdout, stderr, rl, events, bound, ncalls, wiped, streams, history,
          legacy>>

(***************************************************************************)
(* Bounds.                                                                 *)
(***************************************************************************)
MaxCalls == 2

(***************************************************************************)
(* Characters and strings.                                                 *)
(***************************************************************************)
Sep == "/"

\* i flag of the regular expression: the letters of its pattern, folded.
ToLower(c) ==
  CASE c = "Y" -> "y"
    [] c = "E" -> "e"
    [] c = "S" -> "s"
    [] OTHER -> c

\* String.prototype.indexOf(needle): first index (0-based) of needle, or -1.
IndexOf(s, needle) ==
  LET hits == { i \in 0..(Len(s) - Len(needle)) :
                  \A k \in 1..Len(needle) : s[i + k] = needle[k] }
  IN IF hits = {} THEN -1
     ELSE CHOOSE i \in hits : \A j \in hits : i <= j

\* Array.prototype.indexOf(x) on an array of names.
ArrayIndexOf(arr, x) ==
  LET hits == { i \in 1..Len(arr) : arr[i] = x }
  IN IF hits = {} THEN -1
     ELSE (CHOOSE i \in hits : \A j \in hits : i <= j) - 1

(***************************************************************************)
(* path.resolve (POSIX).                                                   *)
(***************************************************************************)
Cwd == <<"/", "a">>

IsAbsolute(p) == Len(p) > 0 /\ p[1] = Sep

\* The segments between separators, empty ones included.
RECURSIVE SplitFrom(_, _, _)
SplitFrom(p, i, cur) ==
  IF i > Len(p) THEN <<cur>>
  ELSE IF p[i] = Sep THEN <<cur>> \o SplitFrom(p, i + 1, <<>>)
  ELSE SplitFrom(p, i + 1, Append(cur, p[i]))

Split(p) == SplitFrom(p, 1, <<>>)

\* normalizeString: drop "" and ".", let ".." remove the segment before it.
RECURSIVE NormalizeFrom(_, _, _)
NormalizeFrom(segs, i, out) ==
  IF i > Len(segs) THEN out
  ELSE IF segs[i] = <<>> \/ segs[i] = <<".">> THEN NormalizeFrom(segs, i + 1, out)
  ELSE IF segs[i] = <<".", ".">>
    THEN NormalizeFrom(segs, i + 1,
                       IF Len(out) = 0 THEN out ELSE SubSeq(out, 1, Len(out) - 1))
  ELSE NormalizeFrom(segs, i + 1, Append(out, segs[i]))

RECURSIVE JoinFrom(_, _)
JoinFrom(segs, i) ==
  IF i > Len(segs) THEN <<>>
  ELSE <<Sep>> \o segs[i] \o JoinFrom(segs, i + 1)

\* Segments of the absolute, normalized path of p.
ResolveSegments(p) ==
  NormalizeFrom(Split(IF IsAbsolute(p) THEN p ELSE Cwd \o <<Sep>> \o p), 1, <<>>)

Resolve(p) ==
  LET segs == ResolveSegments(p)
  IN IF Len(segs) = 0 THEN <<Sep>> ELSE JoinFrom(segs, 1)

(***************************************************************************)
(* defaults: the configuration resolver.                                   *)
(*                                                                         *)
(* A caller's configuration gives each flag as "true", "false" or          *)
(* "undefined" (key absent), each message as its text or "undefined",      *)
(* `ignore` as given or not, and `parent` as a path, the empty string      *)
(* standing for every falsy value (absent, null, '').                      *)
(***************************************************************************)
Undefined == "undefined"

NoParent == <<>>

DefaultIgnore == <<".DS_Store", "Thumbs.db">>

DefaultMessages ==
  [contained |-> "Source folder seems to be contained by destination folder.\nLet's not wipe everything out.",
   confirm |-> "[?] Destination folder will be wiped out. Are you sure you want to proceed? [y/N] ",
   abort |-> "Destination folder not empty, aborting"]

NoMessages == [contained |-> Undefined, confirm |-> Undefined, abort |-> Undefined]

\* wipe(dir) without a configuration: `config || {}`.
NoConfig ==
  [parent |-> NoParent, interactive |-> Undefined, force |-> Undefined,
   silent |-> Undefined, ignore |-> [given |-> FALSE, list |-> <<>>],
   messages |-> NoMessages]

\* Mutant: the caller's object taken whole in place of the defaults.
ExtendReplace(target, source) == source

\* extend(target, source): source's defined keys over target's.
Extend(target, source) ==
  [k \in DOMAIN target \cup DOMAIN source |->
     IF k \in DOMAIN source /\ source[k] # Undefined THEN source[k] ELSE target[k]]

\* One flag of extend's result: the caller's value unless undefined.
Flag(given, default) == IF given = Undefined THEN default ELSE given = "true"

Defaults(c) ==
  [parent |-> c.parent,
   interactive |-> Flag(c.interactive, TRUE),
   force |-> Flag(c.force, FALSE),
   silent |-> Flag(c.silent, FALSE),
   ignore |-> IF c.ignore.given THEN c.ignore.list ELSE DefaultIgnore,
   messages |-> Extend(DefaultMessages, c.messages)]

\* `if (config.parent)`: a non-empty string.
Truthy(p) == Len(p) > 0

(***************************************************************************)
(* Errors.                                                                 *)
(***************************************************************************)
NoError == [code |-> "", message |-> ""]

CreateError(message, code) == [code |-> code, message |-> message]

\* Errors of the collaborators (fs.readdir, rimraf).
EnoentError == [code |-> "ENOENT", message |-> "ENOENT: no such file or directory"]
EaccesError == [code |-> "EACCES", message |-> "EACCES: permission denied"]
EnotdirError == [code |-> "ENOTDIR", message |-> "ENOTDIR: not a directory"]
EpermError == [code |-> "EPERM", message |-> "EPERM: operation not permitted"]

(***************************************************************************)
(* The checks.                                                             *)
(***************************************************************************)
\* isParent(dir, parent): resolved dir starts with resolved parent.
IsParent(d, parent) == IndexOf(Resolve(d), Resolve(parent)) = 0

\* Mutant: the arguments of isParent the other way round.
CheckParentRejectsSwapped(d, c) == IsParent(d, c.parent)

\* checkParent(dir, config): TRUE when it rejects.
CheckParentRejects(d, c) == IsParent(c.parent, d)

\* The file system: a directory is absent, unreadable, a plain file, or
\* lists some names.
Absent == [kind |-> "absent", files |-> {}]
Denied == [kind |-> "denied", files |-> {}]
NotDir == [kind |-> "file", files |-> {}]
Dir(files) == [kind |-> "dir", files |-> files]

\* fs.readdir(dir).
NoListing == [kind |-> "none", files |-> {}, error |-> NoError]

Readdir(f, d) ==
  LET st == f[Resolve(d)]
  IN CASE st.kind = "absent" -> [kind |-> "error", files |-> {}, error |-> EnoentError]
       [] st.kind = "denied" -> [kind |-> "error", files |-> {}, error |-> EaccesError]
       [] st.kind = "file" -> [kind |-> "error", files |-> {}, error |-> EnotdirError]
       [] OTHER -> [kind |-> "files", files |-> st.files, error |-> NoError]

\* The filter of isEmpty: the names not on the ignore list.
Filtered(files, ignore) == { file \in files : ArrayIndexOf(ignore, file) = -1 }

\* Mutant: a directory that is not there taken for one that is not empty.
IsEmptyEnoentFalse(l, c) ==
  IF l.kind = "files"
    THEN [ok |-> TRUE, value |-> Cardinality(Filtered(l.files, c.ignore)) = 0,
          error |-> NoError]
  ELSE IF l.error.code = "ENOENT" THEN [ok |-> TRUE, value |-> FALSE, error |-> NoError]
  ELSE [ok |-> FALSE, value |-> FALSE, error |-> l.error]

\* Mutant: every failure of readdir taken for "the directory is not there".
IsEmptyAnyError(l, c) ==
  IF l.kind = "files"
    THEN [ok |-> TRUE, value |-> Cardinality(Filtered(l.files, c.ignore)) = 0,
          error |-> NoError]
  ELSE [ok |-> TRUE, value |-> TRUE, error |-> NoError]

\* Mutant: ENOENT thrown again like any other error.
IsEmptyNoEnoent(l, c) ==
  IF l.kind = "files"
    THEN [ok |-> TRUE, value |-> Cardinality(Filtered(l.files, c.ignore)) = 0,
          error |-> NoError]
  ELSE [ok |-> FALSE, value |-> FALSE, error |-> l.error]

\* isEmpty(dir, config), from what readdir delivered: the value it resolves
\* with, or the error it rejects with.
IsEmpty(l, c) ==
  IF l.kind = "files"
    THEN [ok |-> TRUE, value |-> Cardinality(Filtered(l.files, c.ignore)) = 0,
          error |-> NoError]
  ELSE IF l.error.code = "ENOENT"
    THEN [ok |-> TRUE, value |-> TRUE, error |-> NoError]
  ELSE [ok |-> FALSE, value |-> FALSE, error |-> l.error]

\* Mutant: the i flag left out.
ProceedCaseSensitive(a) ==
  LET y == Len(a) >= 1 /\ a[1] = "y"
      es == Len(a) >= 3 /\ a[2] = "e" /\ a[3] = "s"
  IN y /\ (es \/ TRUE)

\* /^y(es)?/i.test(answer)
Proceed(a) ==
  LET y == Len(a) >= 1 /\ ToLower(a[1]) = "y"
      es == Len(a) >= 3 /\ ToLower(a[2]) = "e" /\ ToLower(a[3]) = "s"
  IN y /\ (es \/ TRUE)

(***************************************************************************)
(* The inputs of the invocations.                                          *)
(***************************************************************************)
\* Targets: /a/b spelled four ways (absolute, relative to the working
\* directory, with a trailing separator, through "..").
DirInputs ==
  { <<"/", "a", "/", "b">>,
    <<"b">>,
    <<"/", "a", "/", "b", "/">>,
    <<".", ".", "/", "a", "/", "b">> }

\* Parents: none, the target's own parent /a, /a/b itself, a sibling whose
\* name extends the target's (/a/bc), directories below /a/b (absolute and
\* relative), and /a/c written through /a/b.
ParentInputs ==
  { NoParent,
    <<"/", "a">>,
    <<"/", "a", "/", "b">>,
    <<"/", "a", "/", "b", "c">>,
    <<"/", "a", "/", "b", "/", "c">>,
    <<"b", "/", "c", "/">>,
    <<"/", "a", "/", "b", "/", ".", ".", "/", "c">> }

FlagInputs == {"true", "false"}

IgnoreInputs ==
  { [given |-> FALSE, list |-> <<>>],
    [given |-> TRUE, list |-> <<"a.txt">>] }

MessagesInputs ==
  { NoMessages,
    [contained |-> "No.", confirm |-> Undefined, abort |-> "Nope."] }

\* Every flag given, or none of them.
ConfigInputs ==
  [parent : ParentInputs, interactive : FlagInputs, force : FlagInputs,
   silent : FlagInputs, ignore : IgnoreInputs, messages : MessagesInputs]
  \cup
  [parent : ParentInputs, interactive : {Undefined}, force : {Undefined},
   silent : {Undefined}, ignore : IgnoreInputs, messages : MessagesInputs]

\* Lines the operator may answer.
AnswerInputs ==
  { <<>>, <<"y">>, <<"Y">>, <<"y", "e", "s">>, <<"Y", "E", "S">>,
    <<"n">>, <<"n", "o">>, <<"m", "a", "y", "b", "e">>,
    <<"y", "n">>, <<"y", "e", "s", "n", "o">>, <<" ", "y">> }

\* Directories of the file system and what they may hold.
FsPaths == { Resolve(d) : d \in DirInputs }

Names == {".DS_Store", "a.txt"}

DirStates == {Absent, Denied, NotDir} \cup { Dir(files) : files \in SUBSET Names }

(***************************************************************************)
(* The state after loading the module: no invocation yet.                  *)
(***************************************************************************)
\* process.stdin, process.stdout, process.stderr (or the caller's own).
AllOpen == [stdin |-> "open", stdout |-> "open", stderr |-> "open"]

\* maybeWipe has not been called.
NoLegacy ==
  [called |-> FALSE, dir |-> <<>>, parent |-> "none", empty |-> "none",
   rimraf |-> "none", result |-> "pending", error |-> NoError,
   parentError |-> NoError, emptyError |-> NoError, rimrafError |-> NoError]

Init ==
  /\ fs \in [FsPaths -> DirStates]
  /\ pc = "idle"
  /\ via = "none"
  /\ dir = <<>>
  /\ arg = NoConfig
  /\ config = Defaults(NoConfig)
  /\ ret = "none"
  /\ listing = NoListing
  /\ answer = <<>>
  /\ err = NoError
  /\ stdout = <<>>
  /\ stderr = <<>>
  /\ rl = "none"
  /\ events = <<>>
  /\ bound = [made |-> FALSE, config |-> Defaults(NoConfig)]
  /\ ncalls = 0
  /\ wiped = {}
  /\ streams = AllOpen
  /\ history = <<>>
  /\ legacy = NoLegacy

Settled == pc \in {"idle", "fulfilled", "rejected"}

(***************************************************************************)
(* safeWipeRaw(dir, config): the chain is built, nothing has run yet.       *)
(***************************************************************************)
\* First step of the chain: checkParent only `if (config.parent)`.
FirstStep(c) == IF Truthy(c.parent) THEN "checkParent" ELSE "checkEmpty"

\* Mutant: the catch handler attached whatever config.silent.
RejectionAlwaysCaught(c) == "catch"

\* Where a rejection goes: the catch handler is attached `if (!config.silent)`.
Rejection(c) == IF ~c.silent THEN "catch" ELSE "rejected"

SafeWipeRaw(d, c) ==
  /\ dir' = d
  /\ config' = c
  /\ pc' = FirstStep(c)
  /\ listing' = NoListing
  /\ answer' = <<>>
  /\ err' = NoError
  /\ stdout' = <<>>
  /\ stderr' = <<>>
  /\ rl' = "none"
  /\ events' = <<>>
  /\ wiped' = {}
  /\ history' = IF pc = "idle" THEN history ELSE Append(history, pc)
  /\ ncalls' = ncalls + 1

\* safeWipe(dir, config) with a string `dir`: the promise is returned.
SafeWipe(d, c) ==
  /\ Settled
  /\ ncalls < MaxCalls
  /\ SafeWipeRaw(d, Defaults(c))
  /\ via' = "direct"
  /\ arg' = c
  /\ ret' = "promise"
  /\ UNCHANGED <<fs, bound, streams, legacy>>

\* safeWipe(config) with an object: safeWipeNew resolves it once.
SafeWipeNew(c) ==
  /\ Settled
  /\ ~bound.made
  /\ bound' = [made |-> TRUE, config |-> Defaults(c)]
  /\ UNCHANGED <<fs, pc, via, dir, arg, config, ret, listing, answer, err,
                 stdout, stderr, rl, events, ncalls, wiped, streams, history,
                 legacy>>

\* The function safeWipeNew returned, called as f(dir) or f(dir, innerConfig):
\* `function (dir) { safeWipeRaw(dir, config) }` has no second parameter and
\* no return statement.
BoundCall(d, i) ==
  /\ Settled
  /\ bound.made
  /\ ncalls < MaxCalls
  /\ SafeWipeRaw(d, bound.config)
  /\ via' = "bound"
  /\ arg' = i
  /\ ret' = "undefined"
  /\ UNCHANGED <<fs, bound, streams, legacy>>

(***************************************************************************)
(* The steps of the chain.                                                 *)
(***************************************************************************)
\* checkParent
CheckParent ==
  /\ pc = "checkParent"
  /\ IF CheckParentRejects(dir, config)
       THEN /\ err' = CreateError(config.messages.contained, "CONTAINED")
            /\ pc' = Rejection(config)
       ELSE /\ err' = err
            /\ pc' = "checkEmpty"
  /\ UNCHANGED <<fs, wiped, via, dir, arg, config, ret, listing, answer, stdout,
                 stderr, rl, events, bound, ncalls, streams, history, legacy>>

\* Mutant: the test of config.interactive left out.
CheckEmptyDecisionNoAbort(e, c) ==
  IF ~e.ok THEN "fail"
  ELSE IF e.value THEN "rimraf"
  ELSE IF c.force THEN "rimraf"
  ELSE "prompt"

\* Mutant: config.interactive tested before config.force.
CheckEmptyDecisionForceLate(e, c) ==
  IF ~e.ok THEN "fail"
  ELSE IF e.value THEN "rimraf"
  ELSE IF ~c.interactive THEN "abort"
  ELSE IF c.force THEN "rimraf"
  ELSE "prompt"

\* What checkEmpty does with isEmpty's result: "rimraf" (go on), "abort",
\* "prompt" or "fail" (isEmpty rejected).
CheckEmptyDecision(e, c) ==
  IF ~e.ok THEN "fail"
  ELSE IF e.value THEN "rimraf"
  ELSE IF c.force THEN "rimraf"
  ELSE IF ~c.interactive THEN "abort"
  ELSE "prompt"

\* Mutant: `prompt(...)` called without `return`: the chain does not wait
\* for the answer.
PromptStepNotAwaited == "rimraf"

\* `return prompt(...)`: the chain waits for the promise of prompt.
PromptStep == "question"

\* checkEmpty: readdir answers, isEmpty filters, the callback decides and,
\* to prompt, creates the readline interface and writes the question.
CheckEmpty ==
  /\ pc = "checkEmpty"
  /\ LET l == Readdir(fs, dir)
         empty == IsEmpty(l, config)
         decision == CheckEmptyDecision(empty, config)
     IN /\ listing' = l
        /\ CASE decision = "fail" ->
                  /\ err' = empty.error
                  /\ pc' = Rejection(config)
                  /\ events' = Append(events, "readdir")
                  /\ UNCHANGED <<stdout, rl>>
             [] decision = "rimraf" ->
                  /\ pc' = "rimraf"
                  /\ events' = Append(events, "readdir")
                  /\ UNCHANGED <<err, stdout, rl>>
             [] decision = "abort" ->
                  /\ err' = CreateError(config.messages.abort, "ABORT")
                  /\ pc' = Rejection(config)
                  /\ events' = Append(events, "readdir")
                  /\ UNCHANGED <<stdout, rl>>
             [] OTHER ->
                  /\ rl' = "open"
                  /\ stdout' = Append(stdout, config.messages.confirm)
                  /\ pc' = PromptStep
                  /\ events' = events \o <<"readdir", "question">>
                  /\ err' = err
  /\ UNCHANGED <<fs, wiped, via, dir, arg, config, ret, answer, stderr, bound,
                 ncalls, streams, history, legacy>>

\* Mutant: the callback of rl.question without rl.close().
RlLeftOpen == "open"

\* rl.close() in the callback of rl.question, before resolve(answer).
RlAfterAnswer == "closed"

\* The callback of rl.question: close the interface, resolve with the
\* answer, test it.
Answer(a) ==
  /\ pc = "question"
  /\ streams.stdin = "open"
  /\ answer' = a
  /\ rl' = RlAfterAnswer
  /\ events' = events \o <<"answer", "close">>
  /\ IF Proceed(a)
       THEN /\ pc' = "rimraf"
            /\ err' = err
       ELSE /\ err' = CreateError(config.messages.abort, "ABORT")
            /\ pc' = Rejection(config)
  /\ UNCHANGED <<fs, wiped, via, dir, arg, config, ret, listing, stdout, stderr,
                 bound, ncalls, streams, history, legacy>>

\* The environment ends config.stdin while rl.question waits.  readline
\* closes the interface on the end of its input and drops the pending
\* question: the callback of line 160 is never called, and prompt's promise
\* has no reject path (its executor takes `resolve` only), so nothing in the
\* chain can run any more.
CloseInput ==
  /\ pc = "question"
  /\ streams.stdin = "open"
  /\ streams' = [streams EXCEPT !.stdin = "closed"]
  /\ rl' = "closed"
  /\ UNCHANGED <<fs, wiped, pc, via, dir, arg, config, ret, listing, answer, err,
                 stdout, stderr, events, bound, ncalls, history, legacy>>

\* Mutant: rmdir in place of rimraf, which removes a directory only when it
\* holds nothing.
RmdirOnly(f, d) ==
  IF f[Resolve(d)].files = {} THEN [f EXCEPT ![Resolve(d)] = Absent] ELSE f

\* The file system after rimraf(dir): whatever is at the path at that
\* moment is gone, with all it holds.
Rimraf(f, d) == [f EXCEPT ![Resolve(d)] = Absent]

\* Another process adds an entry to the target, creating the target when it
\* is not there, while an invocation is under way.
Writer(n) ==
  /\ ~Settled
  /\ fs[Resolve(dir)].kind \in {"dir", "absent"}
  /\ n \notin fs[Resolve(dir)].files
  /\ fs' = [fs EXCEPT ![Resolve(dir)] = Dir(fs[Resolve(dir)].files \cup {n})]
  /\ UNCHANGED <<pc, via, dir, arg, config, ret, listing, answer, err, stdout,
                 stderr, rl, events, bound, ncalls, wiped, streams, history,
                 legacy>>

\* rimraf(dir) removes the tree; a path that does not exist is a success.
RimrafOk ==
  /\ pc = "rimraf"
  /\ fs' = Rimraf(fs, dir)
  /\ wiped' = fs[Resolve(dir)].files
  /\ pc' = "fulfilled"
  /\ events' = Append(events, "rimraf")
  /\ UNCHANGED <<via, dir, arg, config, ret, listing, answer, err, stdout,
                 stderr, rl, bound, ncalls, streams, history, legacy>>

\* rimraf(dir) fails on a directory it may not remove, having removed any
\* part of its content.
RimrafFails ==
  /\ pc = "rimraf"
  /\ fs[Resolve(dir)].kind # "absent"
  /\ \E left \in SUBSET fs[Resolve(dir)].files :
       /\ fs' = [fs EXCEPT ![Resolve(dir)].files = left]
       /\ wiped' = fs[Resolve(dir)].files \ left
  /\ err' = EpermError
  /\ pc' = Rejection(config)
  /\ events' = Append(events, "rimraf")
  /\ UNCHANGED <<via, dir, arg, config, ret, listing, answer, stdout,
                 stderr, rl, bound, ncalls, streams, history, legacy>>

\* The catch handler: write the message and a line break, throw again.
Catch ==
  /\ pc = "catch"
  /\ stderr' = Append(stderr, <<err.message, "\n">>)
  /\ pc' = "rejected"
  /\ events' = Append(events, "stderr")
  /\ UNCHANGED <<fs, wiped, via, dir, arg, config, ret, listing, answer, err,
                 stdout, rl, bound, ncalls, streams, history, legacy>>

(***************************************************************************)
(* Direct invocations, any configuration.                                  *)
(***************************************************************************)
\* The caller makes one invocation and may repeat it with the same arguments
\* once it has settled.
Next ==
  \/ ncalls = 0 /\ \E d \in DirInputs, c \in ConfigInputs : SafeWipe(d, c)
  \/ ncalls > 0 /\ SafeWipe(dir, arg)
  \/ CheckParent
  \/ CheckEmpty
  \/ \E a \in AnswerInputs : Answer(a)
  \/ CloseInput
  \/ RimrafOk
  \/ RimrafFails
  \/ Catch

Spec == Init /\ [][Next]_vars

\* The event loop runs every callback that is ready: each step of the chain
\* that can be taken is taken.  What the operator and the environment do
\* (Answer, CloseInput, a further call) is under no such obligation.
ChainFairness ==
  /\ WF_vars(CheckParent)
  /\ WF_vars(CheckEmpty)
  /\ WF_vars(RimrafOk \/ RimrafFails)
  /\ WF_vars(Catch)

\* The calls whose progress is followed: one spelling of the target, with or
\* without a parent that lies outside of it, every choice of the flags.
FewConfigInputs ==
  { c \in ConfigInputs :
      /\ c.parent \in {NoParent, <<"/", "a", "/", "b", "c">>}
      /\ ~c.ignore.given
      /\ c.messages = NoMessages }

NextFair ==
  \/ ncalls = 0 /\ \E c \in FewConfigInputs : SafeWipe(<<"/", "a", "/", "b">>, c)
  \/ ncalls > 0 /\ SafeWipe(dir, arg)
  \/ CheckParent
  \/ CheckEmpty
  \/ \E a \in AnswerInputs : Answer(a)
  \/ CloseInput
  \/ RimrafOk
  \/ RimrafFails
  \/ Catch

SpecFair == Init /\ [][NextFair]_vars /\ ChainFairness

\* Calls with every partial `messages` object: each of the three keys left
\* out or given.
AllMessagesInputs ==
  [contained : {Undefined, "No."},
   confirm : {Undefined, "Sure? "},
   abort : {Undefined, "Nope."}]

DefaultsConfigInputs ==
  [parent : {NoParent, <<"/", "a", "/", "b", "/", "c">>},
   interactive : FlagInputs, force : {"false"}, silent : FlagInputs,
   ignore : {[given |-> FALSE, list |-> <<>>]},
   messages : AllMessagesInputs]

NextDefaults ==
  \/ ncalls = 0 /\ \E c \in DefaultsConfigInputs : SafeWipe(<<"/", "a", "/", "b">>, c)
  \/ ncalls > 0 /\ SafeWipe(dir, arg)
  \/ CheckParent
  \/ CheckEmpty
  \/ \E a \in AnswerInputs : Answer(a)
  \/ CloseInput
  \/ RimrafOk
  \/ RimrafFails
  \/ Catch

SpecDefaults == Init /\ [][NextDefaults]_vars

\* An invocation and a concurrent writer to its target.
NextRace ==
  \/ ncalls = 0 /\ \E c \in FewConfigInputs : SafeWipe(<<"/", "a", "/", "b">>, c)
  \/ ncalls > 0 /\ SafeWipe(dir, arg)
  \/ \E n \in Names : Writer(n)
  \/ CheckParent
  \/ CheckEmpty
  \/ \E a \in AnswerInputs : Answer(a)
  \/ CloseInput
  \/ RimrafOk
  \/ RimrafFails
  \/ Catch

SpecRace == Init /\ [][NextRace]_vars

(***************************************************************************)
(* A bound function: safeWipe(config), then calls of what it returned.     *)
(***************************************************************************)
BoundDirInputs == { <<"/", "a", "/", "b">>, <<".", "/", "c">> }

BoundFsPaths == { Resolve(d) : d \in BoundDirInputs }

BoundConfigInputs ==
  [parent : {NoParent, <<"/", "a", "/", "b", "/", "c">>},
   interactive : {"false", Undefined}, force : {"true", Undefined},
   silent : {"true", Undefined}, ignore : {[given |-> FALSE, list |-> <<>>]},
   messages : MessagesInputs]

\* The second argument of a call of the bound function: none, or a
\* configuration for that call.
InnerInputs ==
  { NoConfig,
    [NoConfig EXCEPT !.force = "true"],
    [NoConfig EXCEPT !.interactive = "true"] }

InitBound ==
  /\ fs \in [BoundFsPaths -> DirStates]
  /\ pc = "idle"
  /\ via = "none"
  /\ dir = <<>>
  /\ arg = NoConfig
  /\ config = Defaults(NoConfig)
  /\ ret = "none"
  /\ listing = NoListing
  /\ answer = <<>>
  /\ err = NoError
  /\ stdout = <<>>
  /\ stderr = <<>>
  /\ rl = "none"
  /\ events = <<>>
  /\ bound = [made |-> FALSE, config |-> Defaults(NoConfig)]
  /\ ncalls = 0
  /\ wiped = {}
  /\ streams = AllOpen
  /\ history = <<>>
  /\ legacy = NoLegacy

NextBound ==
  \/ \E c \in BoundConfigInputs : SafeWipeNew(c)
  \/ \E d \in BoundDirInputs, i \in InnerInputs : BoundCall(d, i)
  \/ CheckParent
  \/ CheckEmpty
  \/ \E a \in AnswerInputs : Answer(a)
  \/ CloseInput
  \/ RimrafOk
  \/ RimrafFails
  \/ Catch

SpecBound == InitBound /\ [][NextBound]_vars

(***************************************************************************)
(* The legacy entry point maybeWipe(dir, config).  maybeWipeRaw calls      *)
(* checkParent, checkEmpty and rimraf one after the other while it builds  *)
(* the array `promises`: each call starts its work at once and the array   *)
(* holds the promises of work under way.  The reduce only chains the       *)
(* results.  Each promise is "none" (not created), "pending", "resolved" or *)
(* "rejected".                                                             *)
(***************************************************************************)
LegacyConfigInputs ==
  [parent : ParentInputs, interactive : FlagInputs \cup {Undefined}]

\* defaults(config) of the legacy module, as far as maybeWipeRaw reads it.
LegacyDefaults(c) ==
  [parent |-> c.parent,
   interactive |-> Flag(c.interactive, TRUE),
   messages |-> [contained |-> DefaultMessages.contained]]

\* The legacy checkParent rejects when isParent(dir, config.parent); its
\* error carries no code.
LegacyCheckParentRejects(d, c) == IsParent(d, c.parent)

\* `config.ignore` read in the filter callback while config is undefined.
LegacyTypeError ==
  [code |-> "", message |-> "Cannot read property 'ignore' of undefined"]

\* checkEmpty(dir), called without a configuration: the filter callback
\* throws on the first entry, whatever its name; an empty listing and
\* ENOENT resolve; no prompt is ever reached.
LegacyIsEmpty(l) ==
  IF l.kind = "files"
    THEN IF l.files = {} THEN [ok |-> TRUE, error |-> NoError]
         ELSE [ok |-> FALSE, error |-> LegacyTypeError]
  ELSE IF l.error.code = "ENOENT" THEN [ok |-> TRUE, error |-> NoError]
  ELSE [ok |-> FALSE, error |-> l.error]

\* promises.reduce((a, b) => a.then(() => b)): the first promise of the
\* array that is not resolved decides.
LegacyReduce(l) ==
  IF l.parent \in {"pending", "rejected"}
    THEN [state |-> l.parent, error |-> l.parentError]
  ELSE IF l.empty \in {"pending", "rejected"}
    THEN [state |-> l.empty, error |-> l.emptyError]
  ELSE IF l.rimraf \in {"pending", "rejected"}
    THEN [state |-> l.rimraf, error |-> l.rimrafError]
  ELSE [state |-> "resolved", error |-> NoError]

LegacyUnchanged ==
  UNCHANGED <<pc, via, dir, arg, config, ret, listing, answer, err, stdout,
              stderr, rl, events, bound, ncalls, wiped, streams, history>>

\* maybeWipe(dir, config) with a string: maybeWipeRaw(dir, defaults(config)).
MaybeWipe(d, c) ==
  /\ ~legacy.called
  /\ LET cfg == LegacyDefaults(c)
         rejects == Truthy(cfg.parent) /\ LegacyCheckParentRejects(d, cfg)
     IN legacy' =
          [called |-> TRUE,
           dir |-> d,
           parent |-> IF ~Truthy(cfg.parent) THEN "none"
                      ELSE IF rejects THEN "rejected" ELSE "resolved",
           parentError |-> IF rejects
                             THEN CreateError(cfg.messages.contained, "")
                             ELSE NoError,
           empty |-> IF ~cfg.interactive THEN "pending" ELSE "none",
           emptyError |-> NoError,
           rimraf |-> "pending",
           rimrafError |-> NoError,
           result |-> "pending",
           error |-> NoError]
  /\ UNCHANGED fs
  /\ LegacyUnchanged

\* fs.readdir answers checkEmpty.
LegacyCheckEmpty ==
  /\ legacy.empty = "pending"
  /\ LET e == LegacyIsEmpty(Readdir(fs, legacy.dir))
     IN legacy' = [legacy EXCEPT !.empty = IF e.ok THEN "resolved" ELSE "rejected",
                                 !.emptyError = e.error]
  /\ UNCHANGED fs
  /\ LegacyUnchanged

\* The rimraf started by maybeWipeRaw completes.
LegacyRimrafOk ==
  /\ legacy.rimraf = "pending"
  /\ fs' = Rimraf(fs, legacy.dir)
  /\ legacy' = [legacy EXCEPT !.rimraf = "resolved"]
  /\ LegacyUnchanged

LegacyRimrafFails ==
  /\ legacy.rimraf = "pending"
  /\ fs[Resolve(legacy.dir)].kind # "absent"
  /\ \E left \in SUBSET fs[Resolve(legacy.dir)].files :
       fs' = [fs EXCEPT ![Resolve(legacy.dir)].files = left]
  /\ legacy' = [legacy EXCEPT !.rimraf = "rejected", !.rimrafError = EpermError]
  /\ LegacyUnchanged

\* The promise returned by maybeWipeRaw settles.
LegacySettle ==
  /\ legacy.called
  /\ legacy.result = "pending"
  /\ LegacyReduce(legacy).state # "pending"
  /\ legacy' = [legacy EXCEPT !.result = LegacyReduce(legacy).state,
                              !.error = LegacyReduce(legacy).error]
  /\ UNCHANGED fs
  /\ LegacyUnchanged

NextLegacy ==
  \/ \E d \in DirInputs, c \in LegacyConfigInputs : MaybeWipe(d, c)
  \/ LegacyCheckEmpty
  \/ LegacyRimrafOk
  \/ LegacyRimrafFails
  \/ LegacySettle

SpecLegacy == Init /\ [][NextLegacy]_vars

(***************************************************************************)
(* The properties.  They speak of the caller's own arguments (`dir`,       *)
(* `arg`), of what the invocation observed and of what it did.             *)
(***************************************************************************)
Direct == via = "direct"

Count(seq, e) == Cardinality({ i \in DOMAIN seq : seq[i] = e })

Range(seq) == { seq[i] : i \in DOMAIN seq }

\* The message the caller configured under a key: its own text, or the
\* built-in one.
ConfiguredMessage(key) ==
  IF arg.messages[key] # Undefined THEN arg.messages[key] ELSE DefaultMessages[key]

\* The names the caller asked to ignore.
ConfiguredIgnore ==
  IF arg.ignore.given THEN Range(arg.ignore.list) ELSE {".DS_Store", "Thumbs.db"}

\* The listing of the target delivered at least one entry that is not ignored.
ListedNonEmpty ==
  listing.kind = "files" /\ listing.files \ ConfiguredIgnore # {}

\* The target was found effectively empty: not there, or nothing but
\* ignored entries.
ListedEffectivelyEmpty ==
  \/ listing.kind = "files" /\ listing.files \subseteq ConfiguredIgnore
  \/ listing.kind = "error" /\ listing.error.code = "ENOENT"

Failing == pc \in {"catch", "rejected"}

\* The recursive delete was invoked and failed.
DeleteFailed == Failing /\ Count(events, "rimraf") = 1 /\ err = EpermError

StartsWith(s, prefix) ==
  Len(prefix) <= Len(s) /\ SubSeq(s, 1, Len(prefix)) = prefix

\* C1: a target with a non-ignored entry, interactive = false and force not
\* set: the invocation fails with ABORT and the configured abort message,
\* writes no prompt and never invokes the recursive delete.
C1_Case ==
  Direct /\ ListedNonEmpty /\ arg.interactive = "false" /\ arg.force # "true"

C1_NonInteractiveAborts ==
  C1_Case =>
    /\ Failing
    /\ ret = "promise"
    /\ err = [code |-> "ABORT", message |-> ConfiguredMessage("abort")]
    /\ stdout = <<>>
    /\ rl = "none"
    /\ Count(events, "question") = 0
    /\ Count(events, "rimraf") = 0

C1_Witness ==
  C1_Case /\ pc = "rejected" /\ arg.messages.abort = "Nope."

\* C2: when the resolved parent starts with the resolved target (the two
\* equal included), the invocation fails with CONTAINED and the configured
\* contained message; the target is never listed, nothing is prompted and
\* the recursive delete is never invoked, whatever force and interactive.
C2_Case ==
  Direct /\ Truthy(arg.parent) /\ StartsWith(Resolve(arg.parent), Resolve(dir))

C2_ContainedRejects ==
  C2_Case =>
    /\ pc \in {"checkParent", "catch", "rejected"}
    /\ Failing => err = [code |-> "CONTAINED", message |-> ConfiguredMessage("contained")]
    /\ ret = "promise"
    /\ listing = NoListing
    /\ stdout = <<>>
    /\ rl = "none"
    /\ Count(events, "readdir") = 0
    /\ Count(events, "question") = 0
    /\ Count(events, "rimraf") = 0

C2_Witness ==
  /\ C2_Case
  /\ pc = "rejected"
  /\ arg.force = "true"
  /\ Resolve(arg.parent) # Resolve(dir)
  /\ fs[Resolve(dir)] = Dir({"a.txt"})

\* C3: the invocation fails with CONTAINED if and only if the resolved target
\* is an ancestor of, or the same directory as, the resolved parent.
IsAncestorOrSame(d, p) ==
  LET ds == ResolveSegments(d)
      ps == ResolveSegments(p)
  IN Len(ds) <= Len(ps) /\ SubSeq(ps, 1, Len(ds)) = ds

C3_ContainedIffAncestor ==
  (Direct /\ Truthy(arg.parent) /\ pc # "checkParent") =>
    (err.code = "CONTAINED" <=> IsAncestorOrSame(dir, arg.parent))

\* C4: a target found effectively empty (not there, no entry, or ignored
\* entries only) is wiped without a prompt and without reading the input,
\* for every interactive and force; the invocation succeeds unless the
\* recursive delete itself fails, and then fails with the delete's error.
C4_Case == Direct /\ ListedEffectivelyEmpty

C4_EmptyNeverPrompts ==
  C4_Case =>
    /\ ret = "promise"
    /\ stdout = <<>>
    /\ rl = "none"
    /\ Count(events, "question") = 0
    /\ Count(events, "answer") = 0
    /\ pc \in {"rimraf", "fulfilled"} \/ DeleteFailed

C4_Witness ==
  /\ C4_Case
  /\ pc = "fulfilled"
  /\ listing.kind = "files"
  /\ listing.files = {".DS_Store"}
  /\ arg.interactive = "true"
  /\ arg.force = "false"

\* C4 as first stated: such an invocation always succeeds.
C4_EmptyAlwaysSucceeds ==
  C4_Case =>
    /\ stdout = <<>>
    /\ rl = "none"
    /\ pc \in {"rimraf", "fulfilled"}

\* C5: a target with a non-ignored entry and force = true: the recursive
\* delete is invoked without any prompt, interactive or not; the invocation
\* succeeds unless the delete itself fails.
C5_Case == Direct /\ ListedNonEmpty /\ arg.force = "true"

C5_ForceWipes ==
  C5_Case =>
    /\ ret = "promise"
    /\ stdout = <<>>
    /\ rl = "none"
    /\ Count(events, "question") = 0
    /\ pc = "rimraf" \/ Count(events, "rimraf") = 1
    /\ pc \in {"rimraf", "fulfilled"} \/ DeleteFailed

C5_Witness ==
  /\ C5_Case
  /\ pc = "fulfilled"
  /\ arg.interactive = "false"
  /\ listing.files = {".DS_Store", "a.txt"}
  /\ fs[Resolve(dir)] = Absent

\* C5 as first stated: such an invocation always succeeds.
C5_ForceAlwaysSucceeds ==
  C5_Case =>
    /\ stdout = <<>>
    /\ pc \in {"rimraf", "fulfilled"}

\* An answer is affirmative when it is "y" or "yes", whatever the case.
Fold(a) == [i \in 1..Len(a) |-> ToLower(a[i])]

Affirmative(a) == Fold(a) \in { <<"y">>, <<"y", "e", "s">> }

Answered == Count(events, "answer") = 1

\* The invocation prompted: non-ignored entry, interactive, force not set.
Prompted ==
  Direct /\ ListedNonEmpty /\ arg.interactive # "false" /\ arg.force # "true"

\* C6: after an answer that is not affirmative the invocation fails with
\* ABORT and the configured abort message, the recursive delete is never
\* invoked and the prompt was written exactly once.
C6_NegativeAnswerAborts ==
  (Prompted /\ Answered /\ ~Affirmative(answer)) =>
    /\ Failing
    /\ err = [code |-> "ABORT", message |-> ConfiguredMessage("abort")]
    /\ Count(events, "rimraf") = 0
    /\ Count(events, "question") = 1
    /\ Len(stdout) = 1

\* C7: after an affirmative answer the recursive delete is invoked exactly
\* once, after the answer; the invocation succeeds unless the delete itself
\* fails.
C7_Case == Prompted /\ Answered /\ Affirmative(answer)

C7_AffirmativeWipes ==
  C7_Case =>
    /\ ret = "promise"
    /\ SubSeq(events, 1, 4) = <<"readdir", "question", "answer", "close">>
    /\ \/ pc = "rimraf" /\ Count(events, "rimraf") = 0
       \/ Count(events, "rimraf") = 1 /\ events[5] = "rimraf"
    /\ pc \in {"rimraf", "fulfilled"} \/ DeleteFailed

C7_Witness ==
  C7_Case /\ pc = "fulfilled" /\ answer = <<"Y", "E", "S">>

\* C7 as first stated: such an invocation always succeeds.
C7_AffirmativeAlwaysSucceeds ==
  C7_Case =>
    /\ Count(events, "rimraf") <= 1
    /\ pc \in {"rimraf", "fulfilled"}

\* C8: an answer lets the wipe proceed exactly when it is affirmative; any
\* other answer leads to ABORT.
C8_AffirmativeExactly ==
  (Prompted /\ Answered) => (err.code # "ABORT" <=> Affirmative(answer))

\* The listing delivered to a call of the bound function has an entry that
\* the bound configuration does not ignore.
BoundListedNonEmpty ==
  listing.kind = "files" /\ listing.files \ Range(bound.config.ignore) # {}

\* C9: a function bound with interactive = false (force not set), called on
\* a directory with a non-ignored entry, hands its caller a failure with
\* code ABORT, as safeWipe(directory, config) does, writes no prompt, and
\* runs with the configuration resolved once at binding.
C9_BoundDeliversOutcome ==
  (/\ via = "bound"
   /\ arg = NoConfig
   /\ ~bound.config.interactive
   /\ ~bound.config.force
   /\ BoundListedNonEmpty) =>
    /\ config = bound.config
    /\ stdout = <<>>
    /\ Failing
    /\ err.code = "ABORT"
    /\ ret = "promise"

\* C10: a configuration given to a call of the bound function is merged over
\* the bound one for that call: bound with interactive = false and called
\* with force = true on a directory with a non-ignored entry, the function
\* wipes it instead of failing with ABORT.
C10_InnerConfigMerged ==
  (/\ via = "bound"
   /\ arg.force = "true"
   /\ ~bound.config.interactive
   /\ BoundListedNonEmpty) =>
    /\ err.code # "ABORT"
    /\ pc = "rimraf" \/ Count(events, "rimraf") = 1

\* C11: a failing invocation that is not silent has written, by the time
\* the failure is delivered, exactly the failure's message and a line break
\* to the error stream, once; a silent one has written nothing; an
\* invocation that has not failed has written nothing.
C11_FailureEchoed ==
  Direct =>
    /\ (pc = "rejected" /\ arg.silent # "true") =>
         /\ err # NoError
         /\ stderr = << <<err.message, "\n">> >>
         /\ Count(events, "stderr") = 1
    /\ (pc = "rejected" /\ arg.silent = "true") => stderr = <<>>
    /\ pc # "rejected" => stderr = <<>>
    /\ pc = "catch" => (arg.silent # "true" /\ err # NoError)

C11_Witness ==
  /\ Direct
  /\ pc = "rejected"
  /\ arg.silent = "false"
  /\ err = EpermError
  /\ stderr = << <<"EPERM: operation not permitted", "\n">> >>

\* The containment check has nothing to reject: no parent, or the resolved
\* parent does not start with the resolved target.
ContainmentPasses ==
  ~Truthy(arg.parent) \/ ~StartsWith(Resolve(arg.parent), Resolve(dir))

\* The recursive delete was invoked, or is the step about to run.
DeleteReached == pc = "rimraf" \/ Count(events, "rimraf") >= 1

\* C12: the recursive delete is invoked at most once, and only when no check
\* rejected: the containment check passed, the listing succeeded or reported
\* not-found, and the target was effectively empty, or force is set, or the
\* operator's answer was affirmative.  After a rejection or a listing
\* failure it is never invoked.
C12_DeleteOnlyAfterChecks ==
  Direct =>
    /\ Count(events, "rimraf") <= 1
    /\ DeleteReached =>
         /\ ContainmentPasses
         /\ listing.kind = "files" \/ listing.error.code = "ENOENT"
         /\ \/ ListedEffectivelyEmpty
            \/ arg.force = "true"
            \/ Answered /\ Affirmative(answer)
    /\ (Failing /\ err.code \in {"CONTAINED", "ABORT", "EACCES", "ENOTDIR"}) =>
         Count(events, "rimraf") = 0

\* Position of the first e in seq, 0 when there is none.
Pos(seq, e) ==
  IF Count(seq, e) = 0 THEN 0
  ELSE CHOOSE i \in DOMAIN seq :
         seq[i] = e /\ \A j \in DOMAIN seq : seq[j] = e => i <= j

\* C13: the steps of an invocation are strictly ordered: nothing is listed
\* while the containment check has not completed, the listing precedes the
\* prompt, the prompt is answered before the recursive delete is invoked,
\* and listing, prompt and delete each happen at most once.
C13_StepsInOrder ==
  Direct =>
    /\ Count(events, "readdir") <= 1
    /\ Count(events, "question") <= 1
    /\ Count(events, "rimraf") <= 1
    /\ pc = "checkParent" => (events = <<>> /\ listing = NoListing)
    /\ Count(events, "question") = 1 =>
         (Count(events, "readdir") = 1
            /\ Pos(events, "readdir") < Pos(events, "question"))
    /\ (DeleteReached /\ Count(events, "question") = 1) =>
         (Count(events, "answer") = 1
            /\ Pos(events, "question") < Pos(events, "answer"))
    /\ Count(events, "rimraf") = 1 =>
         /\ Count(events, "readdir") = 1
         /\ Pos(events, "readdir") < Pos(events, "rimraf")
         /\ Pos(events, "answer") < Pos(events, "rimraf")
    /\ pc = "question" => Count(events, "rimraf") = 0

C13_Witness ==
  /\ Direct
  /\ Truthy(arg.parent)
  /\ pc = "fulfilled"
  /\ events = <<"readdir", "question", "answer", "close", "rimraf">>

\* C14: when the listing fails with anything but not-found, the invocation
\* fails with that very error, writes no prompt and never invokes the
\* recursive delete, whatever force and interactive.
C14_Case ==
  Direct /\ listing.kind = "error" /\ listing.error.code # "ENOENT"

C14_ListingFailurePropagates ==
  C14_Case =>
    /\ Failing
    /\ err = listing.error
    /\ err.code \notin {"CONTAINED", "ABORT"}
    /\ stdout = <<>>
    /\ rl = "none"
    /\ Count(events, "question") = 0
    /\ Count(events, "rimraf") = 0
    /\ wiped = {}

C14_Witness ==
  /\ C14_Case
  /\ pc = "rejected"
  /\ arg.force = "true"
  /\ arg.interactive = "true"
  /\ err = EnotdirError

\* C15: when the input stream is closed while the invocation waits for the
\* operator's answer, the invocation never invokes the recursive delete and
\* eventually delivers a failure to the caller.
InputClosedWhilePrompting ==
  Direct /\ pc = "question" /\ streams.stdin = "closed"

C15_InputClosedFails ==
  /\ [](InputClosedWhilePrompting => Count(events, "rimraf") = 0)
  /\ InputClosedWhilePrompting ~> (pc = "rejected")

\* C16: an invocation without force that listed its target as effectively
\* empty goes on to the recursive delete without prompt and without ABORT,
\* and a successful delete removes whatever another process has added to the
\* target since the listing.
C16_Case ==
  Direct /\ arg.force # "true" /\ ListedEffectivelyEmpty

C16_StaleListingStillDeletes ==
  C16_Case =>
    /\ stdout = <<>>
    /\ rl = "none"
    /\ Count(events, "question") = 0
    /\ err.code # "ABORT"
    /\ pc \in {"rimraf", "fulfilled", "catch", "rejected"}
    /\ Failing => DeleteFailed
    /\ pc = "fulfilled" =>
         /\ Count(events, "rimraf") = 1
         /\ fs[Resolve(dir)] = Absent

\* The target was listed as an empty directory, a.txt was added, and the
\* invocation, which would have failed with ABORT on seeing it, deleted it.
C16_Witness ==
  /\ C16_Case
  /\ arg.force = "false"
  /\ arg.interactive = "false"
  /\ listing.kind = "files"
  /\ listing.files = {}
  /\ pc = "fulfilled"
  /\ "a.txt" \in wiped
  /\ "a.txt" \notin ConfiguredIgnore
  /\ events = <<"readdir", "rimraf">>

\* C17: maybeWipe runs its steps one after the other, the first failure
\* decides: the recursive delete is started only when the containment check
\* (with a parent configured) and the emptiness check (when run) have
\* completed successfully, it is never started when one of them rejects, and
\* the call fails with the error of the first step that failed.
LegacyChecksPassed ==
  /\ legacy.parent \in {"none", "resolved"}
  /\ legacy.empty \in {"none", "resolved"}

C17_LegacySequential ==
  legacy.called =>
    /\ legacy.rimraf # "none" => LegacyChecksPassed
    /\ (legacy.parent = "rejected" \/ legacy.empty = "rejected") =>
         legacy.rimraf = "none"
    /\ legacy.result = "rejected" =>
         legacy.error = LegacyReduce(legacy).error

\* C18: once an answer line has been received the line-reading interface of
\* that prompt is closed, before the answer decides anything and before the
\* call settles; an invocation that does not prompt creates no interface;
\* and no step of wipe closes the caller's input, output or error stream.
C18_InterfaceState ==
  Direct =>
    /\ Answered =>
         /\ rl = "closed"
         /\ Pos(events, "close") = Pos(events, "answer") + 1
         /\ Count(events, "close") = 1
    /\ Count(events, "question") = 0 => rl = "none"
    /\ rl = "open" => (pc = "question" /\ ~Answered)
    /\ Settled => rl \in {"none", "closed"}

C18_InterfaceClosed ==
  /\ []C18_InterfaceState
  /\ [][streams' # streams => CloseInput]_vars

\* The answer has arrived and the interface is closed while the call has
\* not settled yet.
C18_Witness ==
  /\ Direct
  /\ Answered
  /\ rl = "closed"
  /\ pc = "rimraf"
  /\ streams = AllOpen

\* C19: whatever subset of the keys contained, confirm and abort the caller
\* supplies, the resolved messages have all three keys, a supplied key has
\* the caller's text and any other the built-in text; a CONTAINED error
\* carries the resolved `contained`, an ABORT error the resolved `abort`,
\* the prompt the resolved `confirm`; and the caller's own configuration is
\* not changed by the invocation.
MessageKeys == {"contained", "confirm", "abort"}

C19_MessagesResolved ==
  Direct =>
    /\ DOMAIN config.messages = MessageKeys
    /\ \A k \in MessageKeys :
         /\ arg.messages[k] # Undefined => config.messages[k] = arg.messages[k]
         /\ arg.messages[k] = Undefined => config.messages[k] = DefaultMessages[k]
    /\ err.code = "CONTAINED" => err.message = ConfiguredMessage("contained")
    /\ err.code = "ABORT" => err.message = ConfiguredMessage("abort")
    /\ \A i \in DOMAIN stdout : stdout[i] = ConfiguredMessage("confirm")

C19_DefaultsOverlay ==
  /\ []C19_MessagesResolved
  /\ [][ncalls' = ncalls => arg' = arg]_vars

\* Only `abort` supplied: the prompt shows the built-in question and the
\* refusal carries the caller's text.
C19_Witness ==
  /\ Direct
  /\ arg.messages = [contained |-> Undefined, confirm |-> Undefined, abort |-> "Nope."]
  /\ stdout = <<DefaultMessages.confirm>>
  /\ err = CreateError("Nope.", "ABORT")
  /\ config.messages.contained = DefaultMessages.contained
  /\ pc = "rejected"

\* C20: a second wipe(D, cfg), run after a first one that succeeded and left
\* D not existing, does not prompt, writes nothing to the error stream,
\* raises no error, can always take its next step and settles only as a
\* success, whatever interactive and force.
C20_Case ==
  /\ Direct
  /\ ncalls >= 2
  /\ history[Len(history)] = "fulfilled"

C20_SecondWipeSucceeds ==
  C20_Case =>
    /\ stdout = <<>>
    /\ stderr = <<>>
    /\ rl = "none"
    /\ err = NoError
    /\ pc \in {"checkParent", "checkEmpty", "rimraf", "fulfilled"}
    /\ pc = "checkParent" => ENABLED CheckParent
    /\ pc = "checkEmpty" => ENABLED CheckEmpty
    /\ pc = "rimraf" => ENABLED RimrafOk /\ ~ENABLED RimrafFails
    /\ listing # NoListing => listing.error = EnoentError

\* The second call of a non-interactive wipe without force has succeeded.
C20_Witness ==
  /\ C20_Case
  /\ ncalls = 2
  /\ arg.interactive = "false"
  /\ arg.force = "false"
  /\ listing.error = EnoentError
  /\ events = <<"readdir", "rimraf">>
  /\ pc = "fulfilled"

====
